---------------------------- MODULE Spec2Model ----------------------------
(***************************************************************************)
(* A model of the OCR / translation pipelines of this repository:          *)
(*   - the rate gate wait_for_rate_limit shared by the callers of one      *)
(*     process (ocr_page.py, translate_json.py, translate_json_urdu.py),   *)
(*   - the retrying invokers ocr_with_gemini, translate_paragraph and      *)
(*     translate_to_urdu and the page-level runners built on them,         *)
(*   - the local-model batch of "LLM evaluation/main.py".                  *)
(* Time is counted in whole seconds in the gate model; retry delays are    *)
(* counted in tenths of a second so that "3.5s" is a value.                *)
(***************************************************************************)
EXTENDS Integers, Sequences, FiniteSets, TLC

VARIABLES
    \* ---- the rate gate (one process, several threads) ----
    clock,               \* time.monotonic(), in seconds
    lockHolder,          \* the thread inside "with _request_lock", or NoThread
    last_request_time,   \* the module global _last_request_time
    tpc,                 \* each thread's position
    tnow,                \* each thread's local variable now
    wake,                \* each sleeping thread's earliest wake-up time
    grants,              \* the values successively stored in _last_request_time
    calls,               \* the start times of the external calls, in order
    variant,             \* which module's wait_for_rate_limit the process runs
    \* ---- a page-level run of one hosted stage over one document ----
    stage,               \* "ocr", "translate" or "urdu"
    input,               \* the input document (for OCR: the page images)
    disk,                \* the output file
    mem,                 \* results["document"]["pages"] of the running process
    pc,                  \* the position of the running process
    page,                \* index of the page being processed, from 1
    attempt,             \* the loop variable attempt of the invoker
    result,              \* the value the invoker returned
    outcome,             \* how the last invocation ended
    err,                 \* str(e) of the exception being handled
    slept,               \* the argument of the last backoff time.sleep
    nGates,              \* wait_for_rate_limit calls of this invocation
    nCalls,              \* generate_content calls of this invocation
    nFailed,             \* calls of this invocation that raised or came back blank
    raisedAny,           \* whether a call of this invocation raised
    run,                 \* how many times the runner was started
    meter,               \* where a run is followed to its end: its calls so far,
                         \* and the errors raised and the backoff sleeps of the
                         \* invocation under way
    \* ---- the local-model batch ----
    lfiles,              \* what each input file of the data folder holds
    louts,               \* the output file of each input file
    lpc,                 \* the position of main()
    fidx,                \* index of the input file in the for loop, from 1
    segments,            \* the segments of the current input file
    sidx,                \* index of the segment in the for loop, from 1
    translation,         \* what translate_segment returned last
    lcalls,              \* the requests posted by this run of the batch
    lreads,              \* the input files this run of the batch has read
    laborted,            \* the inputs on which a run was stopped, each with its
                         \* output file as the stop left it
    lruns                \* how many times the batch was started

gateVars == <<clock, lockHolder, last_request_time, tpc, tnow, wake, grants, calls, variant>>

hostedVars == <<stage, input, disk, mem, pc, page, attempt, result, outcome, err,
                slept, nGates, nCalls, nFailed, raisedAny, run, meter>>

localVars == <<lfiles, louts, lpc, fidx, segments, sidx, translation, lcalls, lreads,
               laborted, lruns>>

vars == <<gateVars, hostedVars, localVars>>

-----------------------------------------------------------------------------
(* Bounds of the model. *)
NThreads == 2
MaxTime == 11
NPages == 5
MaxRuns == 2
NFiles == 2
NLivePages == 2

(* Program constants. *)
REQUEST_INTERVAL == 5

-----------------------------------------------------------------------------
(* The rate gate.                                                           *)
Threads == 1..NThreads
NoThread == 0

(* The two texts of wait_for_rate_limit: ocr_page.py and translate_json.py  *)
(* store the local now; translate_json_urdu.py reads the clock again.       *)
GateVariants == {"ocr_page", "translate_json_urdu"}

\* a gate that wakes one second early
ToSleepShort(elapsed) == REQUEST_INTERVAL - elapsed - 1

\* to_sleep = REQUEST_INTERVAL - elapsed
ToSleep(elapsed) == REQUEST_INTERVAL - elapsed

GateInit ==
    /\ variant \in GateVariants
    /\ clock = 0
    /\ lockHolder = NoThread
    /\ last_request_time = 0
    /\ tpc = [t \in Threads |-> "idle"]
    /\ tnow = [t \in Threads |-> 0]
    /\ wake = [t \in Threads |-> 0]
    /\ grants = <<>>
    /\ calls = <<>>
    /\ stage = "ocr"
    /\ input = [total_pages |-> 0, pages |-> <<>>]
    /\ disk = [state |-> "absent", total_pages |-> 0, pages |-> <<>>]
    /\ mem = <<>> /\ pc = "stopped" /\ page = 0 /\ attempt = 0
    /\ result = <<>> /\ outcome = "none" /\ err = <<>> /\ slept = 0
    /\ nGates = 0 /\ nCalls = 0 /\ nFailed = 0 /\ raisedAny = FALSE
    /\ run = 0
    /\ meter = [on |-> FALSE, calls |-> 0, raised |-> 0, sleeps |-> 0]
    /\ lfiles = <<>> /\ louts = <<>> /\ lpc = "idle" /\ fidx = 0 /\ segments = <<>>
    /\ sidx = 0 /\ translation = [isNone |-> FALSE, text |-> <<>>]
    /\ lcalls = <<>> /\ lreads = {} /\ laborted = {} /\ lruns = 0

\* Time passes; nothing bounds how long a thread stays where it is.
Tick ==
    /\ clock < MaxTime
    /\ clock' = clock + 1
    /\ UNCHANGED <<lockHolder, last_request_time, tpc, tnow, wake, grants, calls, variant, hostedVars, localVars>>

\* with _request_lock: (entry)
AcquireLock(t) ==
    /\ tpc[t] = "idle"
    /\ lockHolder = NoThread
    /\ lockHolder' = t
    /\ tpc' = [tpc EXCEPT ![t] = "locked"]
    /\ UNCHANGED <<clock, last_request_time, tnow, wake, grants, calls, variant, hostedVars, localVars>>

\* now = time.monotonic(); elapsed = now - _last_request_time;
\* if elapsed < REQUEST_INTERVAL: time.sleep(to_sleep) is entered
ReadClock(t) ==
    /\ tpc[t] = "locked"
    /\ tnow' = [tnow EXCEPT ![t] = clock]
    /\ LET elapsed == clock - last_request_time
       IN  IF elapsed < REQUEST_INTERVAL
           THEN /\ wake' = [wake EXCEPT ![t] = clock + ToSleep(elapsed)]
                /\ tpc' = [tpc EXCEPT ![t] = "sleeping"]
           ELSE /\ tpc' = [tpc EXCEPT ![t] = "store"]
                /\ UNCHANGED wake
    /\ UNCHANGED <<clock, lockHolder, last_request_time, grants, calls, variant, hostedVars, localVars>>

\* time.sleep returns, no earlier than asked; now = time.monotonic()
SleepReturns(t) ==
    /\ tpc[t] = "sleeping"
    /\ clock >= wake[t]
    /\ tnow' = [tnow EXCEPT ![t] = clock]
    /\ tpc' = [tpc EXCEPT ![t] = "store"]
    /\ UNCHANGED <<clock, lockHolder, last_request_time, wake, grants, calls, variant, hostedVars, localVars>>

\* _last_request_time = now (ocr_page.py, translate_json.py) or
\* _last_request_time = time.monotonic() (translate_json_urdu.py); the lock
\* is released on leaving the with block.
StoreGrant(t) ==
    /\ tpc[t] = "store"
    /\ LET g == IF variant = "translate_json_urdu" THEN clock ELSE tnow[t]
       IN  /\ last_request_time' = g
           /\ grants' = Append(grants, g)
    /\ lockHolder' = NoThread
    /\ tpc' = [tpc EXCEPT ![t] = "granted"]
    /\ UNCHANGED <<clock, tnow, wake, calls, variant, hostedVars, localVars>>

\* response = model.generate_content(prompt): the external call starts
GenerateContent(t) ==
    /\ tpc[t] = "granted"
    /\ calls' = Append(calls, clock)
    /\ tpc' = [tpc EXCEPT ![t] = "calling"]
    /\ UNCHANGED <<clock, lockHolder, last_request_time, tnow, wake, grants, variant, hostedVars, localVars>>

\* the call returns or raises; the caller comes back for its next attempt
\* or its next page
CallEnds(t) ==
    /\ tpc[t] = "calling"
    /\ tpc' = [tpc EXCEPT ![t] = "idle"]
    /\ UNCHANGED <<clock, lockHolder, last_request_time, tnow, wake, grants, calls, variant, hostedVars, localVars>>

GateNext ==
    \/ Tick
    \/ \E t \in Threads : AcquireLock(t)
    \/ \E t \in Threads : ReadClock(t)
    \/ \E t \in Threads : SleepReturns(t)
    \/ \E t \in Threads : StoreGrant(t)
    \/ \E t \in Threads : GenerateContent(t)
    \/ \E t \in Threads : CallEnds(t)

SpecGate == GateInit /\ [][GateNext]_vars

-----------------------------------------------------------------------------
(* Texts.  A text is a sequence of tokens; " " is a whitespace token and   *)
(* every other token is a run of non-whitespace characters.                *)
WS == " "
EmptyText == <<>>

RECURSIVE LStrip(_)
LStrip(s) == IF s # <<>> /\ Head(s) = WS THEN LStrip(Tail(s)) ELSE s

RECURSIVE RStrip(_)
RStrip(s) == IF s # <<>> /\ s[Len(s)] = WS THEN RStrip(SubSeq(s, 1, Len(s) - 1)) ELSE s

\* str.strip()
Strip(s) == RStrip(LStrip(s))

\* "not text or not text.strip()"
IsBlank(s) == s = <<>> \/ Strip(s) = <<>>

Min(a, b) == IF a < b THEN a ELSE b

(* Error messages.  A message is a sequence of tokens [k, n]: k is the     *)
(* token's text, or "num" for a number, whose value n is in tenths.        *)
Tok(k) == [k |-> k, n |-> 0]
Num(n) == [k |-> "num", n |-> n]
NonWord == {"{", "}", WS}
NoMatch == -1

\* re.search(r"Please retry in ([0-9]+(?:\.[0-9]+)?)s", err_text): the group
\* of the leftmost match at or after p, as a number of tenths
RECURSIVE SearchPleaseRetry(_, _)
SearchPleaseRetry(msg, p) ==
    IF p + 2 > Len(msg) THEN NoMatch
    ELSE IF msg[p].k = "Please retry in " /\ msg[p + 1].k = "num" /\ msg[p + 2].k = "s"
         THEN msg[p + 1].n
         ELSE SearchPleaseRetry(msg, p + 1)

RECURSIVE SkipWhile(_, _, _)
SkipWhile(msg, p, kinds) ==
    IF p <= Len(msg) /\ msg[p].k \in kinds THEN SkipWhile(msg, p + 1, kinds) ELSE p

\* r"retry_delay\W+seconds:\s*([0-9]+)" matched at p: [0-9]+ takes the
\* digits before a decimal point
MatchRetryDelayAt(msg, p) ==
    LET q == SkipWhile(msg, p + 1, NonWord)
        r == SkipWhile(msg, q + 1, {WS})
    IN  IF /\ msg[p].k = "retry_delay"
           /\ q > p + 1
           /\ q <= Len(msg)
           /\ msg[q].k = "seconds:"
           /\ r <= Len(msg)
           /\ msg[r].k = "num"
        THEN (msg[r].n \div 10) * 10
        ELSE NoMatch

\* re.search(r"retry_delay\W+seconds:\s*([0-9]+)", err_text)
RECURSIVE SearchRetryDelay(_, _)
SearchRetryDelay(msg, p) ==
    IF p > Len(msg) THEN NoMatch
    ELSE IF MatchRetryDelayAt(msg, p) # NoMatch THEN MatchRetryDelayAt(msg, p)
         ELSE SearchRetryDelay(msg, p + 1)

(* Program constants of the invokers; delays are in tenths of a second.    *)
max_retries == 12
base_backoff == 20
BackoffCap == 600
OneSecond == 10

\* min(60.0, base_backoff * (2 ** (attempt - 1)))
ExpBackoff(a) == Min(BackoffCap, base_backoff * 2 ^ (a - 1))

\* the two patterns searched in the other order
SleepSecondsOcrDelayFirst(e, a) ==
    LET m2 == SearchRetryDelay(e, 1)
    IN  IF m2 # NoMatch THEN m2 + OneSecond
        ELSE LET m == SearchPleaseRetry(e, 1)
             IN  IF m # NoMatch THEN m + OneSecond ELSE ExpBackoff(a)

\* sleep_seconds of ocr_with_gemini's except branch
SleepSecondsOcr(e, a) ==
    LET m == SearchPleaseRetry(e, 1)
    IN  IF m # NoMatch THEN m + OneSecond
        ELSE LET m2 == SearchRetryDelay(e, 1)
             IN  IF m2 # NoMatch THEN m2 + OneSecond ELSE ExpBackoff(a)

\* sleep_seconds of translate_paragraph, sleep_time of translate_to_urdu
SleepSecondsTranslate(e, a) == ExpBackoff(a)

SleepSeconds(st, e, a) ==
    IF st = "ocr" THEN SleepSecondsOcr(e, a) ELSE SleepSecondsTranslate(e, a)

(* What the service may answer with.                                       *)
ErrTexts == {
    <<Tok("quota"), Tok(WS), Tok("Please retry in "), Num(35), Tok("s")>>,
    <<Tok("retry_delay"), Tok(WS), Tok("{"), Tok(WS), Tok("seconds:"), Tok(WS), Num(100), Tok(WS), Tok("}")>>,
    <<Tok("retry_delay"), Tok("{"), Tok("seconds:"), Num(100), Tok("}"), Tok("Please retry in "), Num(35), Tok("s")>>,
    <<Tok("retry_delay"), Tok("seconds:"), Num(100)>>,
    <<Tok("timeout")>> }

Lang(st) == IF st = "ocr" THEN "de" ELSE IF st = "translate" THEN "en" ELSE "ur"

Responses(st) == { <<>>, <<WS>>, <<WS, Lang(st), WS>> }

\* one terminal value for every stage
TerminalValueSame(st) == <<"[Translation failed]">>

\* what the invoker returns once its attempts are used up
TerminalValue(st) ==
    IF st = "ocr" THEN <<>>
    ELSE IF st = "translate" THEN <<"[Translation failed]">>
    ELSE <<"[Urdu translation failed]">>

-----------------------------------------------------------------------------
(* Documents.  The output file is absent, empty (just opened for writing), *)
(* partial (json.dump has written the head and some of the pages) or whole.*)
NoFile == [state |-> "absent", total_pages |-> 0, pages |-> <<>>]
EmptyFile == [state |-> "empty", total_pages |-> 0, pages |-> <<>>]

\* the page images handed to process_pdf_pages
OcrInputs ==
    { [total_pages |-> n, pages |-> [p \in 1..n |-> [page_number |-> p]]] : n \in 1..NPages }

\* where the one special page of an input document may be: nowhere (0), first
\* or last
SpecialPages(have) == {0} \cup ({1, have} \cap (1..have))

\* an OCR output of a document of NPages pages: at most one page whose
\* content is blank; the OCR run may have stopped after `have` of the pages
TranslateDoc(have, sp, blank) ==
    [total_pages |-> NPages,
     pages |-> [p \in 1..have |->
                  [page_number |-> p,
                   content |-> IF p = sp THEN blank ELSE <<"de">>]]]

TranslateInputs ==
    UNION { { TranslateDoc(have, sp, blank) : sp \in SpecialPages(have), blank \in {<<>>, <<WS>>} } :
            have \in 0..NPages }

\* an output of the first translation stage: at most one page that is blank
\* or holds the failure sentinel
UrduDoc(have, sp, kind) ==
    [total_pages |-> NPages,
     pages |-> [p \in 1..have |->
                  [page_number |-> p,
                   german |-> IF p = sp /\ kind = "blank" THEN <<>> ELSE <<"de">>,
                   english |-> IF p # sp THEN <<"en">>
                               ELSE IF kind = "blank" THEN <<>>
                               ELSE <<"[Translation failed]">>]]]

UrduInputs ==
    UNION { { UrduDoc(have, sp, kind) : sp \in SpecialPages(have), kind \in {"blank", "failed"} } :
            have \in 0..NPages }

InputDocs(st) ==
    IF st = "ocr" THEN OcrInputs
    ELSE IF st = "translate" THEN TranslateInputs
    ELSE UrduInputs

\* the text handed to the invoker for input page p
SourceText(st, p) ==
    IF st = "ocr" THEN <<"image">>
    ELSE IF st = "translate" THEN p.content
    ELSE p.english

\* a runner that tidies the fields it carries forward
PageRecordStripped(st, n, p, r) ==
    IF st = "ocr" THEN [page_number |-> n, content |-> Strip(r)]
    ELSE IF st = "translate"
         THEN [page_number |-> p.page_number, german |-> Strip(p.content), english |-> r]
    ELSE [page_number |-> p.page_number, german |-> Strip(p.german),
          english |-> Strip(p.english), urdu |-> r]

\* page_data / translated_page
PageRecord(st, n, p, r) ==
    IF st = "ocr" THEN [page_number |-> n, content |-> Strip(r)]
    ELSE IF st = "translate"
         THEN [page_number |-> p.page_number, german |-> p.content, english |-> r]
    ELSE [page_number |-> p.page_number, german |-> p.german,
          english |-> p.english, urdu |-> r]

Stages == {"ocr", "translate", "urdu"}

GateIdle ==
    /\ variant = "ocr_page"
    /\ clock = 0
    /\ lockHolder = NoThread
    /\ last_request_time = 0
    /\ tpc = [t \in Threads |-> "idle"]
    /\ tnow = [t \in Threads |-> 0]
    /\ wake = [t \in Threads |-> 0]
    /\ grants = <<>>
    /\ calls = <<>>

HostedIdle ==
    /\ disk = NoFile
    /\ mem = <<>>
    /\ pc = "stopped"
    /\ page = 0
    /\ attempt = 0
    /\ result = <<>>
    /\ outcome = "none"
    /\ err = <<>>
    /\ slept = 0
    /\ nGates = 0
    /\ nCalls = 0
    /\ nFailed = 0
    /\ raisedAny = FALSE
    /\ run = 0

MeterOff == [on |-> FALSE, calls |-> 0, raised |-> 0, sleeps |-> 0]
MeterOn == [on |-> TRUE, calls |-> 0, raised |-> 0, sleeps |-> 0]

\* the meter after c more calls, r more raised errors and z more sleeps
Metered(m, c, r, z) ==
    IF m.on
    THEN [on |-> TRUE, calls |-> m.calls + c, raised |-> m.raised + r,
          sleeps |-> m.sleeps + z]
    ELSE m

HostedInit ==
    /\ stage \in Stages
    /\ input \in InputDocs(stage)
    /\ HostedIdle
    /\ meter = MeterOff
    /\ GateIdle
    /\ lfiles = <<>> /\ louts = <<>> /\ lpc = "idle" /\ fidx = 0 /\ segments = <<>>
    /\ sidx = 0 /\ translation = [isNone |-> FALSE, text |-> <<>>]
    /\ lcalls = <<>> /\ lreads = {} /\ laborted = {} /\ lruns = 0

\* the process is started: process_pdf_pages / translate_json_file build the
\* empty results document
StartRun ==
    /\ pc \in {"stopped", "done", "killed"}
    /\ run < MaxRuns
    /\ run' = run + 1
    /\ mem' = <<>>
    /\ page' = 1
    /\ pc' = "loop"
    /\ attempt' = 0
    /\ result' = <<>>
    /\ outcome' = "none"
    /\ err' = <<>>
    /\ slept' = 0
    /\ nGates' = 0 /\ nCalls' = 0 /\ nFailed' = 0 /\ raisedAny' = FALSE
    /\ meter' = IF meter.on THEN MeterOn ELSE MeterOff
    /\ UNCHANGED <<stage, input, disk, gateVars, localVars>>

\* the for loop over the pages ends
RunEnds ==
    /\ pc = "loop"
    /\ page > Len(input.pages)
    /\ pc' = "done"
    /\ UNCHANGED <<stage, input, disk, mem, page, attempt, result, outcome, err, slept,
                   nGates, nCalls, nFailed, raisedAny, run, meter, gateVars, localVars>>

\* an invoker that returns at once only for the empty text
ShortCircuitsEmptyOnly(st, text) == st # "ocr" /\ text = EmptyText

\* "if not german_text or not german_text.strip(): return ''"; ocr_with_gemini
\* has no such test
ShortCircuits(st, text) == st # "ocr" /\ IsBlank(text)

\* the invoker is called for the next page; the translation invokers return
\* "" at once for a blank text
Invoke ==
    /\ pc = "loop"
    /\ page <= Len(input.pages)
    /\ nGates' = 0 /\ nCalls' = 0 /\ nFailed' = 0 /\ raisedAny' = FALSE
    /\ IF ShortCircuits(stage, SourceText(stage, input.pages[page]))
       THEN /\ result' = <<>>
            /\ outcome' = "blank_input"
            /\ attempt' = 0
            /\ pc' = "record"
       ELSE /\ result' = <<>>
            /\ outcome' = "none"
            /\ attempt' = 1
            /\ pc' = "gate"
    /\ meter' = IF meter.on THEN [meter EXCEPT !.raised = 0, !.sleeps = 0] ELSE meter
    /\ UNCHANGED <<stage, input, disk, mem, page, err, slept, run, gateVars, localVars>>

\* wait_for_rate_limit() of this attempt
WaitForRateLimit ==
    /\ pc = "gate"
    /\ nGates' = nGates + 1
    /\ pc' = "call"
    /\ UNCHANGED <<stage, input, disk, mem, page, attempt, result, outcome, err, slept,
                   nCalls, nFailed, raisedAny, run, meter, gateVars, localVars>>

\* a loop that makes one attempt more
AfterFailureOneMore(a) ==
    IF a > max_retries
    THEN /\ result' = TerminalValue(stage)
         /\ outcome' = "exhausted"
         /\ pc' = "record"
         /\ attempt' = a
    ELSE /\ attempt' = a + 1
         /\ pc' = "gate"
         /\ UNCHANGED <<result, outcome>>

\* a loop that tries again for ever
AfterFailureAgain(a) ==
    /\ attempt' = a
    /\ pc' = "gate"
    /\ UNCHANGED <<result, outcome>>

\* the for loop of the invoker goes on, or ends with the terminal value
AfterFailure(a) ==
    IF a >= max_retries
    THEN /\ result' = TerminalValue(stage)
         /\ outcome' = "exhausted"
         /\ pc' = "record"
         /\ attempt' = a
    ELSE /\ attempt' = a + 1
         /\ pc' = "gate"
         /\ UNCHANGED <<result, outcome>>

\* model.generate_content(prompt) raises
CallRaises(e) ==
    /\ pc = "call"
    /\ nCalls' = nCalls + 1
    /\ nFailed' = nFailed + 1
    /\ raisedAny' = TRUE
    /\ err' = e
    /\ pc' = "except"
    /\ meter' = Metered(meter, 1, 1, 0)
    /\ UNCHANGED <<stage, input, disk, mem, page, attempt, result, outcome, slept,
                   nGates, run, gateVars, localVars>>

\* what the invoker makes of response.text: ocr_with_gemini takes it as it
\* is, the translation invokers strip it
Received(st, r) == IF st = "ocr" THEN r ELSE Strip(r)

\* an invoker that returns whatever the service answers
AcceptsAny(st, r) == TRUE

\* whether the invoker returns on this response: "return response.text", or
\* "if translation: return translation"
Accepts(st, r) == st = "ocr" \/ Strip(r) # <<>>

\* model.generate_content(prompt) returns r as response.text
CallReturns(r) ==
    /\ pc = "call"
    /\ nCalls' = nCalls + 1
    /\ IF Accepts(stage, r)
       THEN /\ result' = Received(stage, r)
            /\ outcome' = "success"
            /\ pc' = "record"
            /\ UNCHANGED <<attempt, nFailed>>
       ELSE /\ nFailed' = nFailed + 1
            /\ AfterFailure(attempt)
    /\ meter' = Metered(meter, 1, 0, 0)
    /\ UNCHANGED <<stage, input, disk, mem, page, err, slept, nGates, raisedAny, run,
                   gateVars, localVars>>

\* an invoker that does not sleep after its last attempt
BackoffNotLast ==
    /\ pc = "except"
    /\ slept' = IF attempt < max_retries THEN SleepSeconds(stage, err, attempt) ELSE 0
    /\ pc' = "slept"
    /\ meter' = Metered(meter, 0, 0, IF attempt < max_retries THEN 1 ELSE 0)
    /\ UNCHANGED <<stage, input, disk, mem, page, attempt, result, outcome, err,
                   nGates, nCalls, nFailed, raisedAny, run, gateVars, localVars>>

\* the except branch: time.sleep(sleep_seconds)
Backoff ==
    /\ pc = "except"
    /\ slept' = SleepSeconds(stage, err, attempt)
    /\ pc' = "slept"
    /\ meter' = Metered(meter, 0, 0, 1)
    /\ UNCHANGED <<stage, input, disk, mem, page, attempt, result, outcome, err,
                   nGates, nCalls, nFailed, raisedAny, run, gateVars, localVars>>

\* the sleep is over
SleepEnds ==
    /\ pc = "slept"
    /\ err' = <<>>
    /\ slept' = 0
    /\ AfterFailure(attempt)
    /\ UNCHANGED <<stage, input, disk, mem, page, nGates, nCalls, nFailed, raisedAny,
                   run, meter, gateVars, localVars>>

\* a runner that puts the new record in front of the list
RecordPageFirst ==
    /\ pc = "record"
    /\ mem' = <<PageRecord(stage, page, input.pages[page], result)>> \o mem
    /\ pc' = "save"
    /\ UNCHANGED <<stage, input, disk, page, attempt, result, outcome, err, slept,
                   nGates, nCalls, nFailed, raisedAny, run, meter, gateVars, localVars>>

\* results["document"]["pages"].append(page_data)
RecordPage ==
    /\ pc = "record"
    /\ mem' = Append(mem, PageRecord(stage, page, input.pages[page], result))
    /\ pc' = "save"
    /\ UNCHANGED <<stage, input, disk, page, attempt, result, outcome, err, slept,
                   nGates, nCalls, nFailed, raisedAny, run, meter, gateVars, localVars>>

\* open(output_path, 'w'): the file is created or cut to nothing
OpenForWrite ==
    /\ pc = "save"
    /\ disk' = EmptyFile
    /\ pc' = "write"
    /\ UNCHANGED <<stage, input, mem, page, attempt, result, outcome, err, slept,
                   nGates, nCalls, nFailed, raisedAny, run, meter, gateVars, localVars>>

\* a document that counts the pages it holds so far
TotalPagesSoFar(st) == Len(mem)

\* "total_pages": len(images), or data["document"]["total_pages"]
TotalPages(st) == input.total_pages

\* json.dump reaches the disk piece by piece: the head
WriteHead ==
    /\ pc = "write"
    /\ disk.state = "empty"
    /\ disk' = [state |-> "partial", total_pages |-> TotalPages(stage), pages |-> <<>>]
    /\ UNCHANGED <<stage, input, mem, pc, page, attempt, result, outcome, err, slept,
                   nGates, nCalls, nFailed, raisedAny, run, meter, gateVars, localVars>>

\* the next page record
WritePage ==
    /\ pc = "write"
    /\ disk.state = "partial"
    /\ Len(disk.pages) < Len(mem)
    /\ disk' = [disk EXCEPT !.pages = Append(@, mem[Len(@) + 1])]
    /\ UNCHANGED <<stage, input, mem, pc, page, attempt, result, outcome, err, slept,
                   nGates, nCalls, nFailed, raisedAny, run, meter, gateVars, localVars>>

\* the closing brackets; the with block closes the file and the loop goes on
WriteEnd ==
    /\ pc = "write"
    /\ disk.state = "partial"
    /\ Len(disk.pages) = Len(mem)
    /\ disk' = [disk EXCEPT !.state = "whole"]
    /\ page' = page + 1
    /\ pc' = "loop"
    /\ UNCHANGED <<stage, input, mem, attempt, result, outcome, err, slept, nGates,
                   nCalls, nFailed, raisedAny, run, meter, gateVars, localVars>>

\* the process is killed; what it held in memory is gone
Kill ==
    /\ pc \notin {"stopped", "done", "killed"}
    /\ pc' = "killed"
    /\ mem' = <<>>
    /\ page' = 0
    /\ attempt' = 0
    /\ result' = <<>>
    /\ outcome' = "none"
    /\ err' = <<>>
    /\ slept' = 0
    /\ nGates' = 0 /\ nCalls' = 0 /\ nFailed' = 0 /\ raisedAny' = FALSE
    /\ UNCHANGED <<stage, input, disk, run, meter, gateVars, localVars>>

HostedNext ==
    \/ StartRun
    \/ RunEnds
    \/ Invoke
    \/ WaitForRateLimit
    \/ \E e \in ErrTexts : CallRaises(e)
    \/ \E r \in Responses(stage) : CallReturns(r)
    \/ Backoff
    \/ SleepEnds
    \/ RecordPage
    \/ OpenForWrite
    \/ WriteHead
    \/ WritePage
    \/ WriteEnd
    \/ Kill

SpecHosted == HostedInit /\ [][HostedNext]_vars

(* A run that is followed to its end: nothing kills the process, every     *)
(* external call returns or raises, every sleep ends, and the meter is on. *)
LiveInputs(st) == { d \in InputDocs(st) : Len(d.pages) <= NLivePages }

LiveInit ==
    /\ stage \in Stages
    /\ input \in LiveInputs(stage)
    /\ HostedIdle
    /\ meter = MeterOn
    /\ GateIdle
    /\ lfiles = <<>> /\ louts = <<>> /\ lpc = "idle" /\ fidx = 0 /\ segments = <<>>
    /\ sidx = 0 /\ translation = [isNone |-> FALSE, text |-> <<>>]
    /\ lcalls = <<>> /\ lreads = {} /\ laborted = {} /\ lruns = 0

\* the steps of the running process
LiveStep ==
    \/ RunEnds
    \/ Invoke
    \/ WaitForRateLimit
    \/ \E e \in ErrTexts : CallRaises(e)
    \/ \E r \in Responses(stage) : CallReturns(r)
    \/ Backoff
    \/ SleepEnds
    \/ RecordPage
    \/ OpenForWrite
    \/ WriteHead
    \/ WritePage
    \/ WriteEnd

\* the runner is started once, on a fresh output path
LiveNext ==
    \/ (pc = "stopped" /\ StartRun)
    \/ LiveStep

SpecHostedLive == LiveInit /\ [][LiveNext]_vars /\ WF_vars(LiveStep)

-----------------------------------------------------------------------------
(* The local-model batch ("LLM evaluation/main.py").                        *)
(* A JSON value: t is its type, s the text of a string or a number, items   *)
(* the elements of a list or the values of an object, keys the object's     *)
(* keys in the order of items.                                              *)
JStr(s) == [t |-> "str", s |-> s, items |-> <<>>, keys |-> <<>>]
JNum(d) == [t |-> "num", s |-> <<d>>, items |-> <<>>, keys |-> <<>>]
JList(xs) == [t |-> "list", s |-> <<>>, items |-> xs, keys |-> <<>>]
JDict(ks, xs) == [t |-> "dict", s |-> <<>>, items |-> xs, keys |-> ks]

KeyIndex(j, key) == CHOOSE i \in 1..Len(j.keys) : j.keys[i] = key

\* key in j, for a dict j
HasKey(j, key) == j.t = "dict" /\ \E i \in 1..Len(j.keys) : j.keys[i] = key

\* j[key], for a dict j that has the key
Get(j, key) == j.items[KeyIndex(j, key)]

\* "key in j" raises TypeError for a number
InRaises(j) == j.t = "num"

\* the word tok holds the word key: "pages" is also part of "total_pages"
WordHolds(tok, key) == tok = key \/ (key = "pages" /\ tok = "total_pages")

\* key in j: a key of a dict, an element of a list, a substring of a string
In(key, j) ==
    IF j.t = "dict" THEN HasKey(j, key)
    ELSE IF j.t = "list" THEN \E i \in 1..Len(j.items) : j.items[i] = JStr(<<key>>)
    ELSE \E i \in 1..Len(j.s) : WordHolds(j.s[i], key)

RECURSIVE PyRepr(_)
RECURSIVE ReprItems(_, _, _)
\* the items of a list or dict from index i on, as repr writes them
ReprItems(j, i, sep) ==
    IF i > Len(j.items) THEN <<>>
    ELSE (IF i > 1 THEN <<sep, WS>> ELSE <<>>)
         \o (IF j.t = "dict" THEN <<"'", j.keys[i], "'", ":", WS>> ELSE <<>>)
         \o PyRepr(j.items[i])
         \o ReprItems(j, i + 1, sep)

\* repr(j)
PyRepr(j) ==
    IF j.t = "str" THEN <<"'">> \o j.s \o <<"'">>
    ELSE IF j.t = "num" THEN j.s
    ELSE IF j.t = "list" THEN <<"[">> \o ReprItems(j, 1, ",") \o <<"]">>
    ELSE <<"{">> \o ReprItems(j, 1, ",") \o <<"}">>

\* str(j)
PyStr(j) == IF j.t = "str" THEN j.s ELSE PyRepr(j)

ReservedKeys == {"total_pages", "content", "document", "metadata"}

\* sorted(data.keys()): the keys of the model are single tokens, compared by
\* their place in KeyOrder
KeyOrder == <<"content", "document", "metadata", "p1", "p2", "pages", "total_pages">>
KeyRank(k) == CHOOSE i \in 1..Len(KeyOrder) : KeyOrder[i] = k

RECURSIVE SortedKeysFrom(_, _)
SortedKeysFrom(j, r) ==
    IF r > Len(KeyOrder) THEN <<>>
    ELSE (IF HasKey(j, KeyOrder[r]) THEN <<KeyOrder[r]>> ELSE <<>>) \o SortedKeysFrom(j, r + 1)

\* Case A, the loop over data['document']['pages'] from item i on; raised
\* tells that an item made "'content' in item" or item['content'] raise
RECURSIVE PagesSegments(_, _)
PagesSegments(items, i) ==
    IF i > Len(items) THEN [raised |-> FALSE, segs |-> <<>>]
    ELSE LET item == items[i]
             rest == PagesSegments(items, i + 1)
         IN  IF InRaises(item) THEN [raised |-> TRUE, segs |-> <<>>]
             ELSE IF ~In("content", item) THEN rest
             ELSE IF item.t # "dict" THEN [raised |-> TRUE, segs |-> <<>>]
             ELSE [raised |-> rest.raised,
                   segs |-> <<PyStr(Get(item, "content"))>> \o rest.segs]

\* Case B, the loop over data['content']
RECURSIVE ContentSegments(_, _)
ContentSegments(items, i) ==
    IF i > Len(items) THEN <<>>
    ELSE LET item == items[i]
         IN  (IF item.t = "dict" /\ HasKey(item, "content")
              THEN <<PyStr(Get(item, "content"))>>
              ELSE IF item.t = "str" THEN <<item.s>> ELSE <<>>)
             \o ContentSegments(items, i + 1)

\* Case C, the loop over sorted(data.keys())
RECURSIVE KeyedSegments(_, _, _)
KeyedSegments(j, ks, i) ==
    IF i > Len(ks) THEN <<>>
    ELSE (IF ks[i] \notin ReservedKeys THEN <<PyStr(Get(j, ks[i]))>> ELSE <<>>)
         \o KeyedSegments(j, ks, i + 1)

\* iterating a value: the elements of a list, the keys of a dict, the
\* characters of a string (a token of the model stands for a character too,
\* and one character never holds the word "content")
IterItems(j) ==
    IF j.t = "list" THEN j.items
    ELSE IF j.t = "dict" THEN [i \in 1..Len(j.keys) |-> JStr(<<j.keys[i]>>)]
    ELSE [i \in 1..Len(j.s) |-> JStr(<<"c">>)]

\* an adapter with no segment for what it does not recognize
NoSegment(data) == <<>>

\* the else branch: text_segments.append(str(data))
StrSegment(data) == <<PyStr(data)>>

\* extract_text_from_json(filepath), for a file that holds the JSON value
\* data, or that cannot be read or parsed (readable = FALSE)
ExtractTextFromJson(readable, data) ==
    IF ~readable THEN <<>>
    ELSE IF data.t = "dict" /\ HasKey(data, "document")
         THEN LET doc == Get(data, "document")
              IN  IF InRaises(doc) THEN <<>>
                  ELSE IF In("pages", doc)
                  THEN IF doc.t # "dict" THEN <<>>
                       ELSE IF Get(doc, "pages").t = "num" THEN <<>>
                       ELSE LET r == PagesSegments(IterItems(Get(doc, "pages")), 1)
                            IN  IF r.raised THEN <<>> ELSE r.segs
                  ELSE IF HasKey(data, "content") /\ Get(data, "content").t = "list"
                  THEN ContentSegments(Get(data, "content").items, 1)
                  ELSE KeyedSegments(data, SortedKeysFrom(data, 1), 1)
    ELSE IF data.t = "dict" /\ HasKey(data, "content") /\ Get(data, "content").t = "list"
         THEN ContentSegments(Get(data, "content").items, 1)
    ELSE IF data.t = "dict" THEN KeyedSegments(data, SortedKeysFrom(data, 1), 1)
    ELSE IF data.t = "list" THEN [i \in 1..Len(data.items) |-> PyStr(data.items[i])]
    ELSE StrSegment(data)

(* Model responses.  A response text is a sequence of tokens: the phrases   *)
(* clean_response looks for (whatever their case), ":", " ", the line break *)
(* NL, and "w" for any other word.                                         *)
NL == "<nl>"

\* the tokens in which "translation" occurs
HasTranslation == {"Translation", "Below is the translation", "The translation is as follows"}

RECURSIVE SplitLines(_)
SplitLines(t) ==
    IF \A i \in 1..Len(t) : t[i] # NL THEN <<t>>
    ELSE LET i == CHOOSE i \in 1..Len(t) : t[i] = NL /\ \A j \in 1..(i - 1) : t[j] # NL
         IN  <<SubSeq(t, 1, i - 1)>> \o SplitLines(SubSeq(t, i + 1, Len(t)))

RECURSIVE JoinLines(_)
JoinLines(ls) ==
    IF Len(ls) = 1 THEN ls[1] ELSE ls[1] \o <<NL>> \o JoinLines(Tail(ls))

\* the least index after `from` whose token is in toks, or 0
FirstAfter(line, from, toks) ==
    IF \E k \in (from + 1)..Len(line) : line[k] \in toks
    THEN CHOOSE k \in (from + 1)..Len(line) :
            line[k] \in toks /\ \A j \in (from + 1)..(k - 1) : line[j] \notin toks
    ELSE 0

StartsWith(line, toks) ==
    Len(line) >= Len(toks) /\ SubSeq(line, 1, Len(toks)) = toks

\* where the match of prefix pattern n ends when it matches at the start of
\* the line, else 0; the patterns are those of the list prefixes, in order
PrefixEnd(n, line) ==
    IF n = 1 THEN
        IF StartsWith(line, <<"Here is the">>) /\ FirstAfter(line, 1, HasTranslation) # 0
        THEN FirstAfter(line, FirstAfter(line, 1, HasTranslation), {":"})
        ELSE 0
    ELSE IF n = 2 THEN
        IF StartsWith(line, <<"Sure, here is">>) THEN FirstAfter(line, 1, {":"}) ELSE 0
    ELSE IF n = 3 THEN
        IF StartsWith(line, <<"Translation", ":">>) THEN 2 ELSE 0
    ELSE IF n = 4 THEN
        IF StartsWith(line, <<"Below is the translation">>) THEN FirstAfter(line, 1, {":"}) ELSE 0
    ELSE IF n = 5 THEN
        IF StartsWith(line, <<"The translation is as follows">>)
        THEN FirstAfter(line, 1, {":"}) ELSE 0
    ELSE IF n = 6 THEN
        IF StartsWith(line, <<"Here is the", WS, "Urdu", WS, "Translation">>)
        THEN FirstAfter(line, 5, {":"}) ELSE 0
    ELSE
        IF StartsWith(line, <<"Here is the", WS, "English", WS, "Translation">>)
        THEN FirstAfter(line, 5, {":"}) ELSE 0

\* where the leftmost match of suffix pattern n starts in the line, else 0;
\* the patterns are those of the list suffixes, in order
SuffixStart(n, line) ==
    IF n = 1 THEN
        IF \E i \in 1..(Len(line) - 1) : line[i] = "Note" /\ line[i + 1] = ":"
        THEN CHOOSE i \in 1..(Len(line) - 1) :
                /\ line[i] = "Note" /\ line[i + 1] = ":"
                /\ \A j \in 1..(i - 1) : ~(line[j] = "Note" /\ line[j + 1] = ":")
        ELSE 0
    ELSE IF n = 2 THEN FirstAfter(line, 0, {"Please let me know"})
    ELSE FirstAfter(line, 0, {"I hope this helps"})

\* str.strip() of a response: spaces and line breaks go
RECURSIVE StripText(_)
StripText(t) ==
    IF t # <<>> /\ Head(t) \in {WS, NL} THEN StripText(Tail(t))
    ELSE IF t # <<>> /\ t[Len(t)] \in {WS, NL} THEN StripText(SubSeq(t, 1, Len(t) - 1))
    ELSE t

\* re.sub(p, "", text, flags=re.IGNORECASE | re.MULTILINE).strip() for the
\* n-th prefix pattern: the match is cut from every line that starts with it
SubPrefix(n, text) ==
    LET lines == SplitLines(text)
        cut(line) == IF PrefixEnd(n, line) = 0 THEN line
                     ELSE SubSeq(line, PrefixEnd(n, line) + 1, Len(line))
    IN  StripText(JoinLines([i \in 1..Len(lines) |-> cut(lines[i])]))

\* the same for the n-th suffix pattern: every line is cut where it matches
SubSuffix(n, text) ==
    LET lines == SplitLines(text)
        cut(line) == IF SuffixStart(n, line) = 0 THEN line
                     ELSE SubSeq(line, 1, SuffixStart(n, line) - 1)
    IN  StripText(JoinLines([i \in 1..Len(lines) |-> cut(lines[i])]))

NPrefixes == 7
NSuffixes == 3

RECURSIVE ApplyPrefixes(_, _)
ApplyPrefixes(n, text) ==
    IF n > NPrefixes THEN text ELSE ApplyPrefixes(n + 1, SubPrefix(n, text))

RECURSIVE ApplySuffixes(_, _)
ApplySuffixes(n, text) ==
    IF n > NSuffixes THEN text ELSE ApplySuffixes(n + 1, SubSuffix(n, text))

\* clean_response(text)
CleanResponse(text) ==
    IF text = <<>> THEN <<>> ELSE ApplySuffixes(1, ApplyPrefixes(1, text))

(* The input files of the batch: what each holds.  The data folder holds    *)
(* two-page documents and at most one file of another kind.                 *)
\* the output of the OCR stage for a document of two pages
TwoPages ==
    [readable |-> TRUE,
     data |-> JDict(<<"document">>,
                  <<JDict(<<"pages">>,
                          <<JList(<<JDict(<<"content">>, <<JStr(<<"a">>)>>),
                                    JDict(<<"content">>, <<JStr(<<"b">>)>>)>>)>>)>>)]

Payloads == {
    TwoPages,
    [readable |-> TRUE, data |-> JDict(<<"content">>, <<JList(<<JStr(<<"x">>)>>)>>)],
    [readable |-> TRUE, data |-> JList(<<JNum("1")>>)],
    [readable |-> TRUE, data |-> JDict(<<>>, <<>>)],
    [readable |-> FALSE, data |-> JStr(<<>>)],
    \* a string and a number: neither an object nor a list
    [readable |-> TRUE, data |-> JStr(<<"w">>)],
    [readable |-> TRUE, data |-> JNum("7")],
    \* a flat object, its keys not in sorted order, with a reserved key
    [readable |-> TRUE,
     data |-> JDict(<<"p2", "total_pages", "p1">>,
                  <<JStr(<<"b">>), JNum("2"), JStr(<<"a">>)>>)],
    \* a content list of a string, an object with content, and a number
    [readable |-> TRUE,
     data |-> JDict(<<"content">>,
                  <<JList(<<JStr(<<"x">>), JDict(<<"content">>, <<JStr(<<"y">>)>>),
                            JNum("7")>>)>>)],
    \* document.pages beside a content list and a page key
    [readable |-> TRUE,
     data |-> JDict(<<"p1", "content", "document">>,
                  <<JStr(<<"a">>), JList(<<JStr(<<"x">>)>>),
                    JDict(<<"pages">>,
                          <<JList(<<JDict(<<"content">>, <<JStr(<<"b">>)>>)>>)>>)>>)],
    \* a flat object whose "document" is a number
    [readable |-> TRUE,
     data |-> JDict(<<"document", "p1">>, <<JNum("7"), JStr(<<"a">>)>>)],
    \* document.pages holds a number among its pages
    [readable |-> TRUE,
     data |-> JDict(<<"document">>,
                  <<JDict(<<"pages">>,
                          <<JList(<<JDict(<<"content">>, <<JStr(<<"a">>)>>),
                                    JNum("7")>>)>>)>>)] }

\* response.json().get('response', '') of an answer of the endpoint
RawTexts == {
    <<>>,
    <<"w">>,
    <<"Translation", ":", WS, "w", NL>>,
    <<"Note", ":", WS, "w">>,
    \* one leading phrase behind another
    <<"Translation", ":", WS, "Translation", ":", WS, "w">>,
    <<"Sure, here is", ":", WS, "Here is the", WS, "Translation", ":", WS, "w">> }

\* what translate_segment returns: None, or the cleaned text
NoneValue == [isNone |-> TRUE, text |-> <<>>]
TextValue(t) == [isNone |-> FALSE, text |-> t]

AbsentOutput == [exists |-> FALSE, entries |-> <<>>]
EmptyOutput == [exists |-> TRUE, entries |-> <<>>]

\* an output file that was there before the batch, holding something else
OtherOutput == [exists |-> TRUE, entries |-> <<[page |-> 0, text |-> <<"w">>]>>]

\* an existence test that also wants the file to hold something
OutputExistsFilled(f) == louts[f].exists /\ louts[f].entries # <<>>

\* os.path.exists(output_path) for the f-th input file
OutputExists(f) == louts[f].exists

LocalInit ==
    /\ lfiles \in { fs \in [1..NFiles -> Payloads] :
                        Cardinality({f \in 1..NFiles : fs[f] # TwoPages}) <= 1 }
    /\ louts \in [1..NFiles -> {AbsentOutput, EmptyOutput, OtherOutput}]
    /\ lpc = "idle"
    /\ fidx = 0
    /\ segments = <<>>
    /\ sidx = 0
    /\ translation = TextValue(<<>>)
    /\ lcalls = <<>>
    /\ lreads = {}
    /\ laborted = {}
    /\ lruns = 0
    /\ GateIdle
    /\ stage = "ocr"
    /\ input = [total_pages |-> 0, pages |-> <<>>]
    /\ HostedIdle
    /\ meter = [on |-> FALSE, calls |-> 0, raised |-> 0, sleeps |-> 0]

\* main() is run: the .json files of the data folder are listed
LocalStart ==
    /\ lpc \in {"idle", "exited", "completed"}
    /\ lruns < MaxRuns
    /\ lruns' = lruns + 1
    /\ fidx' = 1
    /\ segments' = <<>>
    /\ sidx' = 0
    /\ translation' = TextValue(<<>>)
    /\ lcalls' = <<>>
    /\ lreads' = {}
    /\ lpc' = "files"
    /\ UNCHANGED <<lfiles, louts, laborted, gateVars, hostedVars>>

\* if os.path.exists(output_path): continue
SkipExisting ==
    /\ lpc = "files"
    /\ fidx <= Len(lfiles)
    /\ OutputExists(fidx)
    /\ fidx' = fidx + 1
    /\ UNCHANGED <<lfiles, louts, lpc, segments, sidx, translation, lcalls, lruns,
                   lreads, laborted, gateVars, hostedVars>>

\* if not segments: continue
SkipNoSegments ==
    /\ lpc = "files"
    /\ fidx <= Len(lfiles)
    /\ lreads' = lreads \cup {fidx}
    /\ ~OutputExists(fidx)
    /\ ExtractTextFromJson(lfiles[fidx].readable, lfiles[fidx].data) = <<>>
    /\ fidx' = fidx + 1
    /\ UNCHANGED <<lfiles, louts, lpc, segments, sidx, translation, lcalls, lruns,
                   laborted, gateVars, hostedVars>>

\* a batch that leaves the output file to the first entry
BeginFileNoOutput ==
    /\ lpc = "files"
    /\ fidx <= Len(lfiles)
    /\ lreads' = lreads \cup {fidx}
    /\ ~OutputExists(fidx)
    /\ ExtractTextFromJson(lfiles[fidx].readable, lfiles[fidx].data) # <<>>
    /\ segments' = ExtractTextFromJson(lfiles[fidx].readable, lfiles[fidx].data)
    /\ louts' = louts
    /\ sidx' = 1
    /\ lpc' = "segments"
    /\ UNCHANGED <<lfiles, fidx, translation, lcalls, lruns, laborted, gateVars, hostedVars>>

\* the output file is created empty and the loop over the segments begins
BeginFile ==
    /\ lpc = "files"
    /\ fidx <= Len(lfiles)
    /\ lreads' = lreads \cup {fidx}
    /\ ~OutputExists(fidx)
    /\ ExtractTextFromJson(lfiles[fidx].readable, lfiles[fidx].data) # <<>>
    /\ segments' = ExtractTextFromJson(lfiles[fidx].readable, lfiles[fidx].data)
    /\ louts' = [louts EXCEPT ![fidx] = EmptyOutput]
    /\ sidx' = 1
    /\ lpc' = "segments"
    /\ UNCHANGED <<lfiles, fidx, translation, lcalls, lruns, laborted, gateVars, hostedVars>>

\* the for loop over the files ends: "All jobs completed."
BatchEnds ==
    /\ lpc = "files"
    /\ fidx > Len(lfiles)
    /\ lpc' = "completed"
    /\ UNCHANGED <<lfiles, louts, fidx, segments, sidx, translation, lcalls, lruns,
                   lreads, laborted, gateVars, hostedVars>>

\* translate_segment: requests.post raises, or the status is not 2xx
PostFails ==
    /\ lpc = "segments"
    /\ sidx <= Len(segments)
    /\ lcalls' = Append(lcalls, <<fidx, sidx>>)
    /\ translation' = NoneValue
    /\ lpc' = "handle"
    /\ UNCHANGED <<lfiles, louts, fidx, segments, sidx, lruns, lreads, laborted, gateVars, hostedVars>>

\* translate_segment: the endpoint answers and the answer is cleaned
PostAnswers(raw) ==
    /\ lpc = "segments"
    /\ sidx <= Len(segments)
    /\ lcalls' = Append(lcalls, <<fidx, sidx>>)
    /\ translation' = TextValue(CleanResponse(raw))
    /\ lpc' = "handle"
    /\ UNCHANGED <<lfiles, louts, fidx, segments, sidx, lruns, lreads, laborted, gateVars, hostedVars>>

\* the for loop over the segments ends
FileEnds ==
    /\ lpc = "segments"
    /\ sidx > Len(segments)
    /\ fidx' = fidx + 1
    /\ lpc' = "files"
    /\ UNCHANGED <<lfiles, louts, segments, sidx, translation, lcalls, lruns,
                   lreads, laborted, gateVars, hostedVars>>

\* "if translation:"
Truthy(tr) == ~tr.isNone /\ tr.text # <<>>

\* a runner that goes on after None
ExitsNever(tr) == FALSE

\* a runner that stops on every segment it could not save
ExitsOnFailed(tr) == tr.isNone \/ tr.text = <<>>

\* "if translation is None: sys.exit()"
ExitsOn(tr) == tr.isNone

\* the entry is appended to the output file
SaveEntry ==
    /\ lpc = "handle"
    /\ Truthy(translation)
    /\ louts' = [louts EXCEPT ![fidx].entries =
                    Append(@, [page |-> sidx, text |-> translation.text])]
    /\ sidx' = sidx + 1
    /\ lpc' = "segments"
    /\ UNCHANGED <<lfiles, fidx, segments, translation, lcalls, lruns,
                   lreads, laborted, gateVars, hostedVars>>

\* "Failed." and sys.exit()
HardStop ==
    /\ lpc = "handle"
    /\ ~Truthy(translation)
    /\ ExitsOn(translation)
    /\ lpc' = "exited"
    /\ laborted' = laborted \cup {<<fidx, louts[fidx]>>}
    /\ UNCHANGED <<lfiles, louts, fidx, segments, sidx, translation, lcalls, lruns,
                   lreads, gateVars, hostedVars>>

\* "Failed." and on to the next segment
SkipSegment ==
    /\ lpc = "handle"
    /\ ~Truthy(translation)
    /\ ~ExitsOn(translation)
    /\ sidx' = sidx + 1
    /\ lpc' = "segments"
    /\ UNCHANGED <<lfiles, louts, fidx, segments, translation, lcalls, lruns,
                   lreads, laborted, gateVars, hostedVars>>

LocalNext ==
    \/ LocalStart
    \/ SkipExisting
    \/ SkipNoSegments
    \/ BeginFile
    \/ BatchEnds
    \/ PostFails
    \/ \E raw \in RawTexts : PostAnswers(raw)
    \/ FileEnds
    \/ SaveEntry
    \/ HardStop
    \/ SkipSegment

SpecLocal == LocalInit /\ [][LocalNext]_vars

-----------------------------------------------------------------------------
(* Properties. *)

(* C1: in every interleaving of the threads calling wait_for_rate_limit,    *)
(* any two values successively stored in _last_request_time are at least    *)
(* REQUEST_INTERVAL apart: at most one grant per interval.                  *)
C1_GrantsSpaced ==
    \A i \in 1..(Len(grants) - 1) : grants[i + 1] - grants[i] >= REQUEST_INTERVAL

\* Two grants were made, to two threads that were in the gate together.
C1_Witness ==
    /\ Len(grants) >= 2
    /\ \A t \in Threads : tpc[t] \in {"granted", "calling"}

(* C2: an invoker whose service fails K < 12 times and then succeeds        *)
(* returns the success value after exactly K + 1 external calls; when the   *)
(* service fails every time, exactly 12 calls are made and the terminal     *)
(* value is reported.                                                       *)
C2_CallCount ==
    /\ outcome = "success" =>
          /\ nFailed < 12
          /\ nCalls = nFailed + 1
          /\ result \in {Received(stage, r) : r \in Responses(stage)}
    /\ outcome = "exhausted" =>
          /\ nFailed = 12
          /\ nCalls = 12
          /\ result = TerminalValue(stage)

\* eleven failures, then the twelfth call succeeds
C2_Witness ==
    /\ outcome = "success"
    /\ nFailed = 11
    /\ nCalls = 12
    /\ result = <<Lang(stage)>>

\* the second run has begun on the file the first run left after page 2 of 5
ResumedAfterPage2 ==
    /\ run = 2
    /\ Len(input.pages) = 5
    /\ disk.state = "whole"
    /\ Len(disk.pages) = 2
    /\ page \in {1, 2}

(* C3: when the run over a 5-page document was interrupted after the flush  *)
(* of page 2 and the runner is started again, the second run makes no       *)
(* external call for pages 1 and 2 and leaves their records on disk as the  *)
(* first run wrote them.                                                    *)
C3_Resumption ==
    [][ResumedAfterPage2 => (pc' # "call" /\ disk' = disk)]_vars

IsPrefix(s, t) == Len(s) <= Len(t) /\ SubSeq(t, 1, Len(s)) = s

(* C4: at every instant of a page-level run, also in the middle of a flush  *)
(* and when the process is killed, the output file is a whole serialized    *)
(* document, and the pages a flush has written are never lost.              *)
C4_FileAlwaysWhole ==
    [][/\ disk'.state \in {"absent", "whole"}
       /\ (disk.state = "whole" /\ run' = run) => IsPrefix(disk.pages, disk'.pages)]_vars

(* The delay a message suggests, read off the message.                     *)
PleaseRetryAt(msg, p) ==
    /\ p + 2 <= Len(msg)
    /\ msg[p].k = "Please retry in "
    /\ msg[p + 1].k = "num"
    /\ msg[p + 2].k = "s"

RetryDelayAt(msg, p, r) ==
    /\ msg[p].k = "retry_delay"
    /\ msg[r].k = "num"
    /\ \E q \in (p + 2)..(r - 1) :
          /\ msg[q].k = "seconds:"
          /\ \A j \in (p + 1)..(q - 1) : msg[j].k \in {"{", "}", " "}
          /\ \A j \in (q + 1)..(r - 1) : msg[j].k = " "

\* the delay the message suggests, in tenths of a second; -1 when it has none
SuggestedDelay(msg) ==
    IF \E p \in 1..Len(msg) : PleaseRetryAt(msg, p)
    THEN LET p == CHOOSE p \in 1..Len(msg) :
                    PleaseRetryAt(msg, p) /\ \A q \in 1..(p - 1) : ~PleaseRetryAt(msg, q)
         IN  msg[p + 1].n
    ELSE IF \E p, r \in 1..Len(msg) : RetryDelayAt(msg, p, r)
    THEN LET p == CHOOSE p \in 1..Len(msg) :
                    /\ \E r \in 1..Len(msg) : RetryDelayAt(msg, p, r)
                    /\ \A q \in 1..(p - 1) : \A r \in 1..Len(msg) : ~RetryDelayAt(msg, q, r)
             r == CHOOSE r \in 1..Len(msg) : RetryDelayAt(msg, p, r)
         IN  msg[r].n - (msg[r].n % 10)
    ELSE -1

BackoffTable == <<20, 40, 80, 160, 320, 600, 600, 600, 600, 600, 600, 600>>

ExpectedSleep(msg, a) ==
    IF SuggestedDelay(msg) # -1 THEN SuggestedDelay(msg) + 10 ELSE BackoffTable[a]

(* C5: at every retrying call site, an error whose message carries a        *)
(* server-suggested retry delay d is followed by a sleep of d + 1, and the  *)
(* capped exponential backoff is used only when no delay is suggested.      *)
C5_SuggestedDelayEverywhere ==
    pc = "slept" => slept = ExpectedSleep(err, attempt)

(* C6: in ocr_with_gemini the sleep after an error on attempt a is s + 1    *)
(* when the message holds "Please retry in <s>s", else n + 1 when it holds  *)
(* "retry_delay ... seconds: <n>", else min(60, 2 * 2^(a-1)), that is 2, 4, *)
(* 8, 16, 32 and then 60 seconds; the first pattern wins when both occur.   *)
C6_OcrRetryDelay ==
    (stage = "ocr" /\ pc = "slept") =>
        /\ attempt \in 1..12
        /\ slept = ExpectedSleep(err, attempt)
        /\ (\E p \in 1..Len(err) : err[p].k = "Please retry in ") => slept = 45
        /\ (/\ \E p \in 1..Len(err) : err[p].k = "{"
            /\ \A p \in 1..Len(err) : err[p].k # "Please retry in ") => slept = 110

\* both patterns in one message, the second one first: 3.5 + 1 seconds
C6_Witness ==
    /\ stage = "ocr"
    /\ pc = "slept"
    /\ err[1].k = "retry_delay"
    /\ \E p \in 1..Len(err) : err[p].k = "Please retry in "
    /\ slept = 45

(* C8: in the translation stages a blank response is never returned; it     *)
(* uses up one of the 12 attempts and the next attempt is made; a service   *)
(* that answers blank every time gets exactly 12 calls and the invoker      *)
(* returns the sentinel.                                                    *)
C8_BlankIsRetried ==
    stage # "ocr" =>
        /\ outcome = "success" => Strip(result) # <<>>
        /\ (pc \in {"gate", "call"} /\ ~raisedAny) => attempt = nFailed + 1
        /\ (outcome = "exhausted" /\ ~raisedAny) =>
              /\ nCalls = 12
              /\ result \in {<<"[Translation failed]">>, <<"[Urdu translation failed]">>}

\* twelve blank answers in a row
C8_Witness ==
    /\ stage = "translate"
    /\ outcome = "exhausted"
    /\ ~raisedAny
    /\ nCalls = 12
    /\ result = <<"[Translation failed]">>

\* the record of a page whose attempts all failed
FailureValue(rec) ==
    IF stage = "ocr" THEN rec.content = <<>>
    ELSE IF stage = "translate" THEN rec.english = <<"[Translation failed]">>
    ELSE rec.urdu = <<"[Urdu translation failed]">>

(* C9: when all 12 attempts for a page fail, the OCR stage records the page *)
(* with empty content and the translation stages record their sentinel; the *)
(* page is flushed and the runner goes on, so that a run that ends has      *)
(* written one record for every input page.                                 *)
C9_FailureIsData ==
    /\ (outcome = "exhausted" /\ pc \in {"save", "write", "loop", "done"}) =>
          /\ Len(mem) >= 1
          /\ mem[Len(mem)].page_number = input.pages[Len(mem)].page_number
          /\ FailureValue(mem[Len(mem)])
    /\ (outcome = "exhausted" /\ pc = "loop") =>
          /\ disk.state = "whole"
          /\ disk.pages = mem
          /\ page = Len(mem) + 1
    /\ (pc = "done" /\ Len(input.pages) > 0) =>
          /\ disk.state = "whole"
          /\ Len(disk.pages) = Len(input.pages)
          /\ \A p \in 1..Len(input.pages) :
                disk.pages[p].page_number = input.pages[p].page_number

\* a run that ended after the first page failed and the second succeeded
C9_Witness ==
    /\ pc = "done"
    /\ stage = "urdu"
    /\ Len(disk.pages) = NPages
    /\ disk.pages[1].urdu = <<"[Urdu translation failed]">>
    /\ disk.pages[2].urdu = <<"ur">>

(* C7: every external call is preceded by a grant of its own, and no        *)
(* external call starts less than REQUEST_INTERVAL after the previous one   *)
(* started, for every interleaving of the callers.                          *)
C7_CallsSpaced ==
    /\ Len(calls) <= Len(grants)
    /\ \A i \in 1..(Len(calls) - 1) : calls[i + 1] - calls[i] >= REQUEST_INTERVAL

(* C10: when translate_segment has returned None, the only step the batch   *)
(* takes is the exit: no request is posted, no output file is written or   *)
(* created, and neither the segment loop nor the file loop moves on.       *)
C10_HardStop ==
    [][translation.isNone =>
          \/ lruns' = lruns + 1
          \/ /\ lpc' = "exited"
             /\ lcalls' = lcalls
             /\ louts' = louts
             /\ fidx' = fidx
             /\ sidx' = sidx]_vars

\* the first request of the batch failed while a second segment of the first
\* file and a second file with segments were still to be translated
C10_Witness ==
    /\ lpc = "exited"
    /\ translation.isNone
    /\ fidx = 1
    /\ sidx = 1
    /\ Len(segments) = 2
    /\ lcalls = <<<<1, 1>>>>
    /\ louts[1] = EmptyOutput
    /\ ~louts[2].exists
    /\ ExtractTextFromJson(lfiles[2].readable, lfiles[2].data) # <<>>

(* C11: when the file loop of the batch comes to an input whose output file *)
(* exists, whatever it holds, the only step is on to the next input: the   *)
(* input is not read, no request is posted and no output file changes; and *)
(* every request of a run is for an input the run has read.                *)
C11_FileLevelSkip ==
    /\ [](\A i \in 1..Len(lcalls) : lcalls[i][1] \in lreads)
    /\ [][(lpc = "files" /\ fidx <= Len(lfiles) /\ louts[fidx].exists) =>
            /\ fidx' = fidx + 1
            /\ lpc' = "files"
            /\ lreads' = lreads
            /\ lcalls' = lcalls
            /\ louts' = louts]_vars

\* the batch ended: the first input, which has segments and whose output
\* held something else, was passed over, and the second was translated
C11_Witness ==
    /\ lpc = "completed"
    /\ louts[1] = OtherOutput
    /\ ExtractTextFromJson(lfiles[1].readable, lfiles[1].data) # <<>>
    /\ 1 \notin lreads
    /\ 2 \in lreads
    /\ \E i \in 1..Len(lcalls) : lcalls[i][1] = 2
    /\ \A i \in 1..Len(lcalls) : lcalls[i][1] # 1

(* C12: the pages of a document are taken in ascending page-number order,   *)
(* and once the flush of page k is through, the pages list on disk is      *)
(* exactly the records of pages 1..k in that order: the list on disk never *)
(* has a gap or a page out of order.                                       *)
C12_PrefixOrdering ==
    /\ \A i \in 1..Len(disk.pages) : disk.pages[i].page_number = i
    /\ (pc = "loop" /\ page > 1) =>
          /\ disk.state = "whole"
          /\ Len(disk.pages) = page - 1
          /\ disk.pages = mem
    /\ pc \in {"gate", "call", "except", "slept", "record"} =>
          /\ page = Len(mem) + 1
          /\ input.pages[page].page_number = page
          /\ \A i \in 1..Len(mem) : mem[i].page_number = i

\* the third flush of a first run is through
C12_Witness ==
    /\ run = 1
    /\ pc = "loop"
    /\ page = 4
    /\ disk.state = "whole"
    /\ Len(disk.pages) = 3
    /\ disk.pages[3].page_number = 3

\* record rec carries the fields of input page p as they were
CarriedForward(rec, p) ==
    /\ rec.page_number = p.page_number
    /\ stage = "translate" => rec.german = p.content
    /\ stage = "urdu" => (rec.german = p.german /\ rec.english = p.english)

(* C13: in the two translation stages every record, in memory and on disk, *)
(* has the page_number of its input page and carries the earlier stages'   *)
(* fields as they were: german is the OCR content, and in the Urdu stage   *)
(* german and english are those of the first translation stage; this also  *)
(* holds when the stage's own call failed.                                 *)
C13_FieldsCarriedForward ==
    stage # "ocr" =>
        /\ \A i \in 1..Len(mem) : CarriedForward(mem[i], input.pages[i])
        /\ \A i \in 1..Len(disk.pages) : CarriedForward(disk.pages[i], input.pages[i])

\* the Urdu stage failed on a page on which the first translation stage had
\* failed too
C13_Witness ==
    /\ disk.state = "whole"
    /\ Len(disk.pages) >= 1
    /\ stage = "urdu"
    /\ disk.pages[1].german = <<"de">>
    /\ disk.pages[1].english = <<"[Translation failed]">>
    /\ disk.pages[1].urdu = <<"[Urdu translation failed]">>

(* C14: a whole document on disk never holds more pages than its           *)
(* total_pages; it holds exactly total_pages pages only when it has a      *)
(* record for every input page, and while records are missing it holds     *)
(* fewer than total_pages; this also holds when the input is the output of *)
(* an earlier stage that was interrupted.                                  *)
C14_PagesWithinTotal ==
    disk.state = "whole" =>
        /\ Len(disk.pages) <= disk.total_pages
        /\ Len(disk.pages) = disk.total_pages => Len(disk.pages) = Len(input.pages)
        /\ Len(disk.pages) < Len(input.pages) => Len(disk.pages) < disk.total_pages

\* a translation run has ended on an OCR output that held 2 of its pages
C14_Witness ==
    /\ stage = "translate"
    /\ pc = "done"
    /\ Len(input.pages) = 2
    /\ disk.state = "whole"
    /\ Len(disk.pages) = 2
    /\ disk.total_pages = NPages

\* the payload is neither an object nor a list
IsScalar(data) == data.t \notin {"dict", "list"}

(* C15: extract_text_from_json returns a list of texts for every payload,  *)
(* the empty list when something in it raised; for a payload that is       *)
(* neither an object nor a list, and so has none of the four shapes, it    *)
(* returns one segment, the payload as a string, and the batch goes on to  *)
(* translate that segment.                                                 *)
C15_FallbackSegment ==
    /\ \A f \in 1..Len(lfiles) :
          /\ ExtractTextFromJson(lfiles[f].readable, lfiles[f].data) \in Seq(Seq(STRING))
          /\ (lfiles[f].readable /\ IsScalar(lfiles[f].data)) =>
                ExtractTextFromJson(lfiles[f].readable, lfiles[f].data)
                    = <<PyStr(lfiles[f].data)>>
    /\ \A f \in lreads :
          (lfiles[f].readable /\ IsScalar(lfiles[f].data)) =>
              /\ louts[f].exists
              /\ (f = fidx /\ lpc \in {"segments", "handle", "exited"}) =>
                    segments = <<PyStr(lfiles[f].data)>>

\* the request for the one segment of a file that holds the number 7
C15_Witness ==
    /\ lpc = "handle"
    /\ lfiles[fidx].data = JNum("7")
    /\ segments = <<(<<"7">>)>>
    /\ lcalls = <<<<fidx, 1>>>>

(* The four shapes of a payload, as they are described.                     *)
\* an object whose "document" is an object whose "pages" is a list
HasDocumentPages(data) ==
    /\ data.t = "dict"
    /\ HasKey(data, "document")
    /\ HasKey(Get(data, "document"), "pages")
    /\ Get(Get(data, "document"), "pages").t = "list"

\* an object whose "content" is a list
HasContentList(data) ==
    /\ data.t = "dict"
    /\ HasKey(data, "content")
    /\ Get(data, "content").t = "list"

\* the content of the items from i on: of the objects that have one and,
\* where strings count as items, of the strings
RECURSIVE ContentsFrom(_, _, _)
ContentsFrom(items, i, strings) ==
    IF i > Len(items) THEN <<>>
    ELSE (IF HasKey(items[i], "content") THEN <<PyStr(Get(items[i], "content"))>>
          ELSE IF strings /\ items[i].t = "str" THEN <<items[i].s>>
          ELSE <<>>)
         \o ContentsFrom(items, i + 1, strings)

\* the values of the keys that are not reserved, from rank r of the sorted
\* order on
RECURSIVE PageValuesFrom(_, _)
PageValuesFrom(data, r) ==
    IF r > Len(KeyOrder) THEN <<>>
    ELSE (IF HasKey(data, KeyOrder[r]) /\ KeyOrder[r] \notin ReservedKeys
          THEN <<PyStr(Get(data, KeyOrder[r]))>> ELSE <<>>)
         \o PageValuesFrom(data, r + 1)

\* the segments of a payload, by the first shape it has
ExpectedSegments(data) ==
    IF HasDocumentPages(data)
    THEN ContentsFrom(Get(Get(data, "document"), "pages").items, 1, FALSE)
    ELSE IF HasContentList(data) THEN ContentsFrom(Get(data, "content").items, 1, TRUE)
    ELSE IF data.t = "dict" THEN PageValuesFrom(data, 1)
    ELSE IF data.t = "list" THEN [i \in 1..Len(data.items) |-> PyStr(data.items[i])]
    ELSE <<PyStr(data)>>

\* every page of document.pages is an object
PagesAreObjects(data) ==
    HasDocumentPages(data) =>
        \A i \in 1..Len(Get(Get(data, "document"), "pages").items) :
            Get(Get(data, "document"), "pages").items[i].t = "dict"

(* C16: for every input file the batch has read whose payload has one of   *)
(* the four shapes, the segments are those of the first shape it has:      *)
(* the content of each page of document.pages in list order; else each     *)
(* string and each object's content of the content list in list order;     *)
(* else, for an object, the values of the keys other than total_pages,     *)
(* content, document and metadata in sorted key order; else, for a list,   *)
(* its elements in order, each as a string.                                *)
C16_RecognizedShapes ==
    \A f \in lreads :
        (/\ lfiles[f].readable
         /\ lfiles[f].data.t \in {"dict", "list"}
         /\ PagesAreObjects(lfiles[f].data)) =>
            /\ ExtractTextFromJson(lfiles[f].readable, lfiles[f].data)
                   = ExpectedSegments(lfiles[f].data)
            /\ (f = fidx /\ lpc \in {"segments", "handle", "exited"}) =>
                   segments = ExpectedSegments(lfiles[f].data)

(* C17: clean_response is idempotent: the text translate_segment returns,   *)
(* which is clean_response of the raw answer, is left as it is by          *)
(* clean_response.                                                         *)
C17_CleanIdempotent ==
    (lpc = "handle" /\ ~translation.isNone) =>
        CleanResponse(translation.text) = translation.text

(* C18: whatever the service does, an invoker makes at most 12 attempts    *)
(* and at most 12 calls, and a run over N pages makes at most 12 * N       *)
(* calls; when every call returns or raises and every wait ends, an        *)
(* invoker that was called returns, and a run that was started ends.       *)
C18_BoundedRetryTerminates ==
    /\ [](/\ attempt <= 12
          /\ nCalls <= 12
          /\ meter.calls <= 12 * Len(input.pages))
    /\ (pc = "gate") ~> (pc = "record")
    /\ (pc = "loop") ~> (pc = "done")

\* a run over two pages has ended after 24 calls, none of which succeeded
C18_Witness ==
    /\ pc = "done"
    /\ Len(input.pages) = 2
    /\ meter.calls = 24
    /\ Len(disk.pages) = 2

(* C19: the output file of an input exists from before its first segment   *)
(* is translated; when a run was stopped on a segment of an input, the     *)
(* output file is there, holds no entry for that segment or a later one,   *)
(* and stays as it is in every later run, which neither reads that input   *)
(* nor posts a request for it.                                             *)
C19_AbortedInputStaysPartial ==
    /\ lpc \in {"segments", "handle", "exited"} => louts[fidx].exists
    /\ lpc = "exited" =>
          /\ <<fidx, louts[fidx]>> \in laborted
          /\ sidx <= Len(segments)
          /\ \A i \in 1..Len(louts[fidx].entries) : louts[fidx].entries[i].page < sidx
    /\ \A a \in laborted :
          /\ louts[a[1]] = a[2]
          /\ a[2].exists
          /\ (lpc # "exited" \/ fidx # a[1]) =>
                /\ a[1] \notin lreads
                /\ \A i \in 1..Len(lcalls) : lcalls[i][1] # a[1]

\* the second run has ended; the first had been stopped on segment 2 of the
\* first input, whose output still holds the entry of segment 1 alone
C19_Witness ==
    /\ lruns = 2
    /\ lpc = "completed"
    /\ \E a \in laborted : a[1] = 1 /\ Len(a[2].entries) = 1
    /\ Len(louts[1].entries) = 1
    /\ louts[1].entries[1].page = 1
    /\ Len(ExtractTextFromJson(lfiles[1].readable, lfiles[1].data)) = 2
    /\ 1 \notin lreads

(* C20: in an invocation the backoff sleeps are as many as the calls that   *)
(* raised: one sleep follows each raised error, the one of the 12th        *)
(* attempt too, before the invoker returns; a call that returned, blank or *)
(* not, is followed by the gate of the next attempt or by the return,      *)
(* with no sleep.                                                          *)
C20_SleepsMatchRaised ==
    /\ [](meter.on =>
            /\ pc = "except" => meter.sleeps = meter.raised - 1
            /\ pc \in {"gate", "call", "slept", "record"} => meter.sleeps = meter.raised
            /\ (pc = "record" /\ outcome = "exhausted" /\ nFailed = meter.raised) =>
                  meter.sleeps = 12)
    /\ [][(meter.on /\ pc = "call" /\ pc' \in {"gate", "record"}) =>
            meter'.sleeps = meter.sleeps]_vars

\* the first translation stage gives up on a page after six raised errors
\* and six blank answers
C20_Witness ==
    /\ meter.on
    /\ stage = "translate"
    /\ pc = "record"
    /\ outcome = "exhausted"
    /\ nFailed = 12
    /\ meter.raised = 6
    /\ meter.sleeps = 6

\* the field a translation stage adds to a page record
TranslatedField(st, rec) == IF st = "translate" THEN rec.english ELSE rec.urdu

\* the records of recs that stand for a page whose source text is blank
BlankPagesOf(recs) ==
    { i \in 1..Len(recs) : IsBlank(SourceText(stage, input.pages[i])) }

\* C21: when the source text of a page is empty or only whitespace,
\* translate_paragraph and translate_to_urdu return "" without waiting at
\* the rate gate and without an external call; the page is still recorded
\* and written out, and its translated field is "" and not the sentinel.
C21_BlankInputShortCircuit ==
    stage # "ocr" =>
      /\ (page \in 1..Len(input.pages) /\ IsBlank(SourceText(stage, input.pages[page]))) =>
            /\ pc \notin {"gate", "call", "except", "slept"}
            /\ pc \in {"record", "save", "write"} =>
                  /\ result = EmptyText
                  /\ nGates = 0
                  /\ nCalls = 0
      /\ \A i \in BlankPagesOf(mem) : TranslatedField(stage, mem[i]) = EmptyText
      /\ (pc = "loop" /\ page > 1) =>
            /\ Len(mem) = page - 1
            /\ disk.state = "whole"
            /\ disk.pages = mem
            /\ \A i \in 1..Len(mem) : mem[i].page_number = input.pages[i].page_number

\* the first translation stage is past a page that holds only whitespace:
\* the page is on disk with an empty translation
C21_Witness ==
    /\ stage = "translate"
    /\ pc = "loop"
    /\ page = 2
    /\ input.pages[1].content = <<WS>>
    /\ nGates = 0
    /\ nCalls = 0
    /\ disk.state = "whole"
    /\ Len(disk.pages) = 1
    /\ disk.pages[1].german = <<WS>>
    /\ disk.pages[1].english = EmptyText

\* translate_segment returned "": the endpoint answered and nothing was left
\* of the answer after it was cleaned
EmptyTranslation == lpc = "handle" /\ ~translation.isNone /\ translation.text = EmptyText

\* output file f is as it was, or has one more entry at its end
KeptOrExtended(f) ==
    \/ louts'[f] = louts[f]
    \/ /\ louts'[f].exists
       /\ Len(louts'[f].entries) = Len(louts[f].entries) + 1
       /\ SubSeq(louts'[f].entries, 1, Len(louts[f].entries)) = louts[f].entries

\* C22: in the local-model batch only None stops the run.  When the
\* translation of a segment is the empty string, no entry is written for it
\* and the run goes on with the next segment; an entry that is written is
\* put at the end of the file under the index of its segment, whatever
\* happened to the segments before it; and once an output file exists it is
\* only ever extended at its end, never rewritten.
C22_OnlyNoneAborts ==
    /\ [][EmptyTranslation =>
            /\ lpc' = "segments"
            /\ sidx' = sidx + 1
            /\ fidx' = fidx
            /\ louts' = louts]_vars
    /\ [][\A f \in 1..Len(louts) :
            /\ louts[f].exists => KeptOrExtended(f)
            /\ (louts[f].exists /\ louts'[f] # louts[f]) =>
                  /\ f = fidx
                  /\ lpc = "handle"
                  /\ ~translation.isNone
                  /\ louts'[f].entries[Len(louts'[f].entries)] =
                        [page |-> sidx, text |-> translation.text]]_vars
    /\ [](lpc = "exited" => translation.isNone)

\* the first segment of an input came back empty and the second was saved:
\* the output file holds one entry, under page 2
C22_Witness ==
    /\ lpc = "segments"
    /\ fidx \in 1..Len(lfiles)
    /\ Len(segments) = 2
    /\ sidx = 3
    /\ \E i \in 1..(Len(lcalls) - 1) :
          lcalls[i] = <<fidx, 1>> /\ lcalls[i + 1] = <<fidx, 2>>
    /\ louts[fidx].entries = <<[page |-> 2, text |-> <<"w">>]>>


=============================================================================
